---- MODULE Spec2Model ----
(***************************************************************************)
(* Model of scripts/fetch-modules.js: the ModuleFetcher class (404 cache,  *)
(* rateLimitedFetch, fetchWithRetry, the GitHub search loop, the Packagist *)
(* fallback, merge / sort / truncate) and main().                          *)
(*                                                                         *)
(* An asynchronous function is cut at its awaits.  The code between two    *)
(* awaits is one action; the network, which answers the requests in        *)
(* flight, is the environment and is drawn with \E.                        *)
(***************************************************************************)
EXTENDS Integers, Sequences, FiniteSets, TLC

(***************************************************************************)
(* Program constants.                                                      *)
(***************************************************************************)
MAX_MODULES == 20

\* default value of fetchWithRetry's third parameter
DefaultMaxRetries == 3

\* base of the backoff: sleep(1000 * (i + 1))
BackoffBase == 1000

(***************************************************************************)
(* Bounds of the model.                                                    *)
(***************************************************************************)
\* SpecRetry calls fetchWithRetry with maxRetries in 0..MaxRetriesTried
MaxRetriesTried == 4

\* SpecRetry performs at most this many lookups that reach the network
MaxCalls == 2

\* candidates whose answers are arbitrary
NumFree == 1

\* deviations from the plain answers in one run
MaxDeviations == 2

(***************************************************************************)
(* HTTP.  A response is abstracted to its status; NetErr stands for a      *)
(* fetch() that rejects (network exception).                               *)
(***************************************************************************)
NetErr == "neterr"

Statuses == {"200", "403", "404", "422", "500", NetErr}

\* response.ok
IsOk(s) == s = "200"

None == "none"

NoUrl == <<"none", 0>>

\* the error rateLimitedFetch throws for a cached URL; its message contains
\* 'HTTP 404' as the one fetchWithRetry throws for a 404 response does
Cached404 == "cached404"

(***************************************************************************)
(* The providers' data.  The candidates ("free" repositories 1..NumFree)   *)
(* answer arbitrarily; every way an answer differs from the plain one      *)
(* (status 200, manifest with a silverstripe type and its own name, ...)   *)
(* is a deviation, and a run sees at most MaxDeviations of them.  The      *)
(* answer to the first query may begin with a block of MAX_MODULES - 1     *)
(* healthy repositories, which answer plainly.                             *)
(***************************************************************************)
FreeRepos == 1..NumFree

PlainRepos == (NumFree + 1)..(NumFree + MAX_MODULES - 1)

Repos == FreeRepos \cup PlainRepos

\* searchQueries: the run is modelled with two of the queries of the list
searchQueries == <<1, 2>>

\* timestamps are instants; Absent is a missing JSON field
Dates == {1, 2, 3}

Absent == 0 - 1

DefaultDate(r) == 1 + (r % 2)

\* names: a repository's full_name, or a composer package name
FullName(r) == <<"repo", r>>

OwnPackage(r) == <<"pkg", r>>

\* the package of the first healthy repository: a fork declares it too, and
\* Packagist lists it
ForkedPackage == OwnPackage(NumFree + 1)

\* a package only Packagist knows
FreshPackage == <<"pkg", 0>>

PkgNames == {ForkedPackage, FreshPackage}

\* URLs, keyed by what the code interpolates into them
SearchUrl(n) == <<"search", n>>

ManifestUrl(r) == <<"manifest", r>>

ReleaseUrl(r) == <<"release", r>>

\* the URL of getLatestVersion's tags lookup
TagsUrl(r) == <<"tags", r>>

PkgSearchUrl == <<"pkgsearch", 0>>

PkgUrl(name) == <<"pkgdetail", name[2]>>

RetryUrls == {ManifestUrl(1), ReleaseUrl(1)}

\* the URLs of the secondary provider
PackagistUrls == {PkgSearchUrl} \cup {PkgUrl(n) : n \in PkgNames}

AllUrls ==
    {SearchUrl(searchQueries[n]) : n \in 1..Len(searchQueries)}
        \cup {ManifestUrl(r) : r \in Repos} \cup {ReleaseUrl(r) : r \in Repos}
        \cup {PkgSearchUrl} \cup {PkgUrl(n) : n \in PkgNames}

VARIABLES
    notFoundCache,  \* this.notFoundCache
    requestCount,   \* this.requestCount
    maxRetries,     \* the maxRetries argument of direct fetchWithRetry calls
    headers,        \* this.headers: the names of the headers every request carries
    outage,         \* the environment of the run: no provider can be reached
    unit,           \* SpecUnit: the last call of a method as a unit, and what it returned
    body,           \* SpecUnit: the body the lookup of that call is answered with
    cur,            \* the lookup of the sequential thread (one fetchWithRetry call)
    netLookups,     \* per URL: lookups that sent a request over the network
    pc,             \* where the sequential thread stands
    q,              \* index of `query` in searchQueries
    items,          \* the items of data.items not yet visited
    foundRepos,     \* foundRepos
    modules,        \* modules (of searchGitHubRepositories, then of fetchModules)
    repo,           \* the candidate being validated and extracted
    ex,             \* extractModuleData's packageName, description, publishedDate
    pkgResults,     \* data.results of the Packagist search
    tasks,          \* the fetchWithRetry calls of the extractPackagistModuleData promises
    pkgOut,         \* what each of these promises resolved to
    ghModules,      \* what searchGitHubRepositories returned
    pkgModules,     \* what fallbackToPackagist returned
    result,         \* what fetchModules returned
    file,           \* data/modules.json
    devs            \* deviations of the providers' answers so far

netVars == <<notFoundCache, requestCount, cur, netLookups>>

searchVars == <<q, items, foundRepos, repo, ex>>

pkgVars == <<pkgResults, tasks, pkgOut>>

outVars == <<ghModules, pkgModules, result, file>>

pipeVars == <<pc, searchVars, modules, pkgVars, outVars, devs>>

envVars == <<maxRetries, headers, outage>>

unitVars == <<unit, body>>

vars == <<netVars, envVars, unitVars, pipeVars>>

\* the pending `await fetch(...)` of a set of calls
Waiting(calls) == Cardinality({k \in 1..Len(calls) : calls[k].st = "wait"})

\* the constructor: this.headers, with Authorization when GITHUB_TOKEN is set
ConstructorHeaders(token) ==
    {"Accept", "User-Agent"} \cup (IF token THEN {"Authorization"} ELSE {})

\* fetch(url, { ...options, headers: { ...this.headers, ...options.headers } }):
\* the names of the headers of the request
RequestHeaders(hdrs, optionHeaders) == hdrs \cup optionHeaders

(***************************************************************************)
(* One fetchWithRetry call is a record:                                    *)
(*   url, mr (its maxRetries), i (the loop variable),                      *)
(*   st: "idle"  no call made yet                                          *)
(*       "wait"  `await fetch(...)` pending                                *)
(*       "sleep" `await this.sleep(...)` pending                           *)
(*       "ok"    returned a response                                       *)
(*       "threw" threw err                                                 *)
(*       "undef" fell out of the for loop: returned undefined              *)
(*   err: the status (or NetErr) the thrown error was built from,          *)
(*   nreq: requests issued by this call, slept: the sleeps it made,        *)
(*   resps: the responses it received.                                     *)
(***************************************************************************)
IdleCall ==
    [url |-> NoUrl, mr |-> 0, i |-> 0, st |-> "idle", err |-> None,
     nreq |-> 0, slept |-> <<>>, resps |-> <<>>]

\* fetchWithRetry(url, options, mr) up to its first await: the loop is
\* entered only if 0 < mr
NewCall(url, mr) ==
    IF mr <= 0
    THEN [IdleCall EXCEPT !.url = url, !.mr = mr, !.st = "undef"]
    ELSE [IdleCall EXCEPT !.url = url, !.mr = mr, !.st = "wait", !.nreq = 1]

\* mutant of Backoff: doubling instead of linear growth
Backoff_Exponential(i) == BackoffBase * (2 ^ i)

\* the backoff before attempt i + 2 (i counts from 0)
Backoff(i) == BackoffBase * (i + 1)

\* mutant of OnResponse: a 404 is retried like any other failure
OnResponse_Retry404(t, s) ==
    LET t1 == [t EXCEPT !.resps = Append(@, s)] IN
    IF IsOk(s) THEN [t1 EXCEPT !.st = "ok"]
    ELSE IF t.i = t.mr - 1 THEN [t1 EXCEPT !.st = "threw", !.err = s]
    ELSE [t1 EXCEPT !.st = "sleep", !.slept = Append(@, Backoff(t.i))]

\* mutant of OnResponse: the last attempt is compared with maxRetries
OnResponse_OffByOne(t, s) ==
    LET t1 == [t EXCEPT !.resps = Append(@, s)] IN
    IF IsOk(s) THEN [t1 EXCEPT !.st = "ok"]
    ELSE IF s = "404" THEN [t1 EXCEPT !.st = "threw", !.err = "404"]
    ELSE IF t.i = t.mr THEN [t1 EXCEPT !.st = "threw", !.err = s]
    ELSE [t1 EXCEPT !.st = "sleep", !.slept = Append(@, Backoff(t.i))]

\* One loop iteration of fetchWithRetry from the resolution of
\* `await fetch` on: the response has status s (or fetch rejected).
OnResponse(t, s) ==
    LET t1 == [t EXCEPT !.resps = Append(@, s)] IN
    IF IsOk(s) THEN [t1 EXCEPT !.st = "ok"]
    ELSE IF s = "404" THEN [t1 EXCEPT !.st = "threw", !.err = "404"]
    ELSE IF t.i = t.mr - 1 THEN [t1 EXCEPT !.st = "threw", !.err = s]
    ELSE [t1 EXCEPT !.st = "sleep", !.slept = Append(@, Backoff(t.i))]

\* mutant of OnWake: the sleep never ends
OnWake_Stuck(t) == t

\* the sleep is over: i++, the loop condition holds, next fetch
OnWake(t) ==
    [t EXCEPT !.i = @ + 1, !.st = "wait", !.nreq = @ + 1]

\* mutant of CacheAfter: every failed response is cached
CacheAfter_AnyFailure(cache, url, s) ==
    IF s # "200" THEN cache \cup {url} ELSE cache

\* notFoundCache after a response with status s for url
CacheAfter(cache, url, s) ==
    IF s = "404" THEN cache \cup {url} ELSE cache

Finished(t) == t.st \in {"ok", "threw", "undef"}

Bump(f, u) == [f EXCEPT ![u] = @ + 1]

(***************************************************************************)
(* Records.                                                                *)
(***************************************************************************)
\* an item of data.items: nameMarker is `full_name contains 'silverstripe'`,
\* desc is "none" (no description), "plain" or "marked" (contains it)
NoRepo ==
    [id |-> 0, nameMarker |-> FALSE, desc |-> "none",
     pushed_at |-> Absent, updated_at |-> Absent]

PlainRepo(r) ==
    [id |-> r, nameMarker |-> TRUE, desc |-> "plain",
     pushed_at |-> DefaultDate(r), updated_at |-> DefaultDate(r)]

B(x) == IF x THEN 1 ELSE 0

RepoCost(a) ==
    B(~a.nameMarker) + B(a.desc # "plain") + B(a.pushed_at # DefaultDate(a.id))

\* updated_at is read only when pushed_at is absent
RepoChoices(r) ==
    IF r \in PlainRepos THEN {PlainRepo(r)}
    ELSE {a \in [id : {r}, nameMarker : BOOLEAN, desc : {"none", "plain", "marked"},
                 pushed_at : Dates \cup {Absent}, updated_at : Dates] :
            a.pushed_at # Absent => a.updated_at = DefaultDate(r)}

\* composer.json as validateSilverstripeModule reads it: ok is "the content
\* decodes and parses"; marker is the first of `type contains
\* 'silverstripe-'`, `some keyword contains 'silverstripe'`, `name contains
\* 'silverstripe'` that holds, or "none".  A body that does not parse has no
\* fields.
ValidateBodies ==
    {b \in [ok : BOOLEAN, marker : {"type", "keyword", "name", "none"}] :
        ~b.ok => b.marker = "none"}

ValidateCost(b) == IF b.ok /\ b.marker = "type" THEN 0 ELSE 1

\* composer.json as extractModuleData reads it
ManifestBodies ==
    {b \in [ok : BOOLEAN, name : {"own", "fork", "none"}, hasDesc : BOOLEAN] :
        ~b.ok => b.name = "none" /\ ~b.hasDesc}

ManifestCost(b) == IF b.ok THEN B(b.name # "own") + B(~b.hasDesc) ELSE 1

\* the latest release as extractModuleData reads it
ReleaseBodies ==
    {b \in [ok : BOOLEAN, published_at : Dates \cup {Absent}] :
        ~b.ok => b.published_at = Absent}

ReleaseCost(b) == IF b.ok /\ b.published_at = Absent THEN 0 ELSE 1

\* the latest release as getLatestVersion reads it: tag is the first of
\* tag_name and name that is set
VersionBodies ==
    {b \in [ok : BOOLEAN, tag : {"tag_name", "name", "none"}] : ~b.ok => b.tag = "none"}

VersionCost(b) == IF b.ok /\ b.tag = "tag_name" THEN 0 ELSE 1

\* a package's detail as extractPackagistModuleData reads it: ok is "detail.
\* package.versions[detail.package.version] exists"
DetailBodies == {b \in [ok : BOOLEAN, time : Dates] : ~b.ok => b.time = 1}

DetailCost(b) == IF b.ok /\ b.time = 1 THEN 0 ELSE 1

\* from is the field publishedDate was read from
NoExtract ==
    [packageName |-> FullName(0), description |-> "none", publishedDate |-> Absent,
     from |-> "none"]

\* a `published` value: the ISO string GitHub sent, or a Date object
IsoString(d) == <<"string", d>>

DateObject(d) == <<"Date", d>>

NoModule ==
    [name |-> FullName(0), description |-> "none", url |-> <<"none", 0>>,
     published |-> IsoString(Absent), version |-> "null"]

(***************************************************************************)
(* Pure parts of the code.                                                 *)
(***************************************************************************)
\* mutant of FallbackCheck: the description is not looked at
FallbackCheck_NameOnly(rp) == rp.nameMarker

\* the catch of validateSilverstripeModule
FallbackCheck(rp) == rp.nameMarker \/ rp.desc = "marked"

\* mutant of ManifestMarked: only the type is looked at
ManifestMarked_TypeOnly(b) == b.marker = "type"

\* the return of the try: type.includes('silverstripe-') || keywords.some(...)
\* || name.toLowerCase().includes('silverstripe')
ManifestMarked(b) == b.marker # "none"

\* mutant of ValidateSilverstripeModule: a failed lookup rejects the candidate
ValidateSilverstripeModule_NoFallback(rp, st, b) ==
    st = "ok" /\ b.ok /\ b.marker # "none"

\* validateSilverstripeModule once its lookup has ended: st is how the
\* lookup ended, b the body of the response
ValidateSilverstripeModule(rp, st, b) ==
    IF st = "ok" /\ b.ok
    THEN ManifestMarked(b)
    ELSE FallbackCheck(rp)

\* repo.pushed_at || repo.updated_at
PushOrUpdate(rp) == IF rp.pushed_at # Absent THEN rp.pushed_at ELSE rp.updated_at

PushOrUpdateField(rp) ==
    IF rp.pushed_at # Absent THEN "pushed_at"
    ELSE IF rp.updated_at # Absent THEN "updated_at"
    ELSE "none"

\* new Date(a) > new Date(b): the Date of an absent timestamp is invalid and
\* compares false with every Date
LaterDate(a, b) == a # Absent /\ b # Absent /\ a > b

\* packageName and description before the manifest is read
ExtractStart(rp) ==
    [packageName |-> FullName(rp.id),
     description |-> IF rp.desc = "none" THEN "placeholder" ELSE "repo",
     publishedDate |-> Absent,
     from |-> "none"]

\* mutant of ExtractManifest: the manifest's name is not taken over
ExtractManifest_KeepFullName(e, rp, st, b) ==
    LET read == st = "ok" /\ b.ok IN
    [packageName |-> e.packageName,
     description |-> IF read /\ b.hasDesc THEN "manifest" ELSE e.description,
     publishedDate |-> PushOrUpdate(rp),
     from |-> PushOrUpdateField(rp)]

\* ... after the manifest lookup; then publishedDate is initialised
ExtractManifest(e, rp, st, b) ==
    LET read == st = "ok" /\ b.ok IN
    [packageName |-> IF read /\ b.name = "own" THEN OwnPackage(rp.id)
                     ELSE IF read /\ b.name = "fork" THEN ForkedPackage
                     ELSE e.packageName,
     description |-> IF read /\ b.hasDesc THEN "manifest" ELSE e.description,
     publishedDate |-> PushOrUpdate(rp),
     from |-> PushOrUpdateField(rp)]

\* mutant of ExtractRelease: on a tie the release's timestamp is taken
ExtractRelease_ReleaseOnTie(e, st, b) ==
    IF st = "ok" /\ b.ok /\ b.published_at # Absent
          /\ ~LaterDate(e.publishedDate, b.published_at)
    THEN [e EXCEPT !.publishedDate = b.published_at, !.from = "release"]
    ELSE e

\* ... after the latest-release lookup
ExtractRelease(e, st, b) ==
    IF st = "ok" /\ b.ok /\ b.published_at # Absent
          /\ LaterDate(b.published_at, e.publishedDate)
    THEN [e EXCEPT !.publishedDate = b.published_at, !.from = "release"]
    ELSE e

\* getLatestVersion once its lookup has ended.  The lookup returns only
\* responses with response.ok, so the tags branch after `if (response.ok)`
\* is never entered.
GetLatestVersion(st, b) ==
    IF st = "ok" /\ b.ok /\ b.tag # "none" THEN b.tag ELSE "null"

\* the object extractModuleData returns
ModuleData(e, rp, version) ==
    [name |-> e.packageName, description |-> e.description,
     url |-> <<"github", rp.id>>, published |-> IsoString(e.publishedDate),
     version |-> version]

\* the object extractPackagistModuleData returns: published is
\* new Date(latestVersion.time)
PackagistModuleData(name, b) ==
    [name |-> name, description |-> "packagist", url |-> <<"packagist", name[2]>>,
     published |-> DateObject(b.time), version |-> "version"]

\* new Date(m.published): the instant of an ISO string, or of a Date object
ParseDate(m) == m.published[2]

\* typeof published.split === 'function'
HasSplit(m) == m.published[1] = "string"

\* mutant of Compare: oldest first
Compare_Ascending(a, b) == ParseDate(a) - ParseDate(b)

\* the comparator of sortModulesByDate: negative when a goes first
Compare(a, b) == ParseDate(b) - ParseDate(a)

RECURSIVE InsertSorted(_, _)
InsertSorted(m, s) ==
    IF s = <<>> THEN <<m>>
    ELSE IF Compare(m, Head(s)) < 0 THEN <<m>> \o s
    ELSE <<Head(s)>> \o InsertSorted(m, Tail(s))

RECURSIVE SortInto(_, _)
SortInto(ms, acc) ==
    IF ms = <<>> THEN acc ELSE SortInto(Tail(ms), InsertSorted(Head(ms), acc))

\* Array.prototype.sort with that comparator: stable, newest first
SortModulesByDate(ms) == SortInto(ms, <<>>)

Min(a, b) == IF a < b THEN a ELSE b

\* modules.slice(0, n)
Slice(ms, n) == SubSeq(ms, 1, Min(n, Len(ms)))

\* mutant of SortAndLimit: no slice
SortAndLimit_NoSlice(ms) == SortModulesByDate(ms)

\* line 462
SortAndLimit(ms) == Slice(SortModulesByDate(ms), MAX_MODULES)

\* lines 465-470: mod.published.split('T') for the first three records;
\* a Date object has no split method
LogTop3Throws(ms) == \E k \in 1..Min(3, Len(ms)) : ~HasSplit(ms[k])

Names(ms) == {ms[k].name : k \in 1..Len(ms)}

RECURSIVE SelectNew(_, _)
SelectNew(ms, existing) ==
    IF ms = <<>> THEN <<>>
    ELSE IF Head(ms).name \in existing THEN SelectNew(Tail(ms), existing)
    ELSE <<Head(ms)>> \o SelectNew(Tail(ms), existing)

\* mutant of Merge: the Packagist records are appended unfiltered
Merge_NoFilter(gh, pk) == gh \o pk

\* lines 451-453: merge and deduplicate
Merge(gh, pk) == gh \o SelectNew(pk, Names(gh))

\* no method has been called as a unit
NoUnit == [op |-> "none", st |-> "idle", verdict |-> FALSE]

NoBody == [ok |-> FALSE]

PipeInit ==
    /\ unit = NoUnit
    /\ body = NoBody
    /\ pc = "start"
    /\ q = 1
    /\ items = <<>>
    /\ foundRepos = {}
    /\ modules = <<>>
    /\ repo = NoRepo
    /\ ex = NoExtract
    /\ pkgResults = <<>>
    /\ tasks = <<>>
    /\ pkgOut = <<>>
    /\ ghModules = <<>>
    /\ pkgModules = <<>>
    /\ result = <<>>
    /\ file = [writes |-> 0, content |-> <<>>]
    /\ devs = 0

(***************************************************************************)
(* The sequential thread's lookup: shared by both specifications.          *)
(***************************************************************************)
\* the network answers the pending request of the sequential thread
RetryRespond ==
    /\ cur.st = "wait"
    /\ \E s \in Statuses :
          /\ cur' = OnResponse(cur, s)
          /\ notFoundCache' = CacheAfter(notFoundCache, cur.url, s)
    /\ UNCHANGED <<requestCount, envVars, unitVars, netLookups, pipeVars>>

\* the backoff timer of the sequential thread fires
Wake ==
    /\ cur.st = "sleep"
    /\ cur' = OnWake(cur)
    /\ UNCHANGED <<notFoundCache, requestCount, envVars, unitVars, netLookups, pipeVars>>

(***************************************************************************)
(* SpecRetry: fetchWithRetry and rateLimitedFetch as units, called with    *)
(* every maxRetries in 0..MaxRetriesTried.                                 *)
(***************************************************************************)
\* lookups that reached the network so far
Lookups == netLookups[ManifestUrl(1)] + netLookups[ReleaseUrl(1)]

RetryInit ==
    /\ notFoundCache = {}
    /\ requestCount = 0
    /\ maxRetries \in 0..MaxRetriesTried
    /\ headers = ConstructorHeaders(FALSE)
    /\ outage = FALSE
    /\ cur = IdleCall
    /\ netLookups = [u \in AllUrls |-> 0]
    /\ PipeInit

\* a direct call fetchWithRetry(url, {}, maxRetries)
RetryCallDirect ==
    /\ cur.st = "idle" \/ Finished(cur)
    /\ Lookups < MaxCalls
    /\ \E u \in RetryUrls :
          /\ cur' = NewCall(u, maxRetries)
          /\ netLookups' = IF maxRetries > 0 THEN Bump(netLookups, u) ELSE netLookups
    /\ UNCHANGED <<notFoundCache, requestCount, envVars, unitVars, pipeVars>>

\* rateLimitedFetch(url): a cached 404 throws before any request; otherwise
\* the request is counted and fetchWithRetry(url, options) runs with the
\* default maxRetries
RateLimited(cache, url) ==
    IF url \in cache
    THEN [IdleCall EXCEPT !.url = url, !.st = "threw", !.err = Cached404]
    ELSE NewCall(url, DefaultMaxRetries)

RetryCallLimited ==
    /\ cur.st = "idle" \/ Finished(cur)
    /\ Lookups < MaxCalls
    /\ \E u \in RetryUrls :
          LET c == RateLimited(notFoundCache, u) IN
          /\ cur' = c
          /\ requestCount' = requestCount + c.nreq
          /\ netLookups' = [netLookups EXCEPT ![u] = @ + c.nreq]
    /\ UNCHANGED <<notFoundCache, envVars, unitVars, pipeVars>>

RetryNext == RetryCallDirect \/ RetryCallLimited \/ RetryRespond \/ Wake

SpecRetry == RetryInit /\ [][RetryNext]_vars

(***************************************************************************)
(* Spec: one run of main().                                                *)
(***************************************************************************)
\* statuses the pipeline is answered with: fetchWithRetry treats every
\* failure other than 404 alike, "500" stands for them
PipelineStatuses == {"200", "404", "500"}

\* a deviation of cost c may happen now: the budget allows it, and a
\* healthy repository does not deviate
Allowed(c) ==
    /\ devs + c <= MaxDeviations
    /\ repo.id \in PlainRepos => c = 0

\* a lookup deviates once, with its first failed attempt: how its retries
\* are answered is free
ResponseCost(t, s) == B(s # "200" /\ t.i = 0)

\* in an outage every request fails, which uses up no deviation
EnvCost(t, s) == IF outage THEN 0 ELSE ResponseCost(t, s)

\* `await this.rateLimitedFetch(url)` up to its first await: the call counts
\* as a request exactly when it reaches fetchWithRetry, which then sends one
Fetch(url) ==
    LET c == RateLimited(notFoundCache, url) IN
    /\ cur' = c
    /\ requestCount' = requestCount + c.nreq
    /\ netLookups' = [netLookups EXCEPT ![url] = @ + c.nreq]

\* the lookup's result is consumed and no new lookup starts
NoFetch ==
    /\ cur' = IdleCall
    /\ UNCHANGED <<requestCount, netLookups>>

\* the block of healthy repositories
BulkItems == [k \in 1..(MAX_MODULES - 1) |-> NumFree + k]

\* lists of candidates, up to renaming
FreeLists ==
    {s \in UNION {[1..n -> FreeRepos] : n \in 0..NumFree} :
        \A k \in 1..Len(s) : \A r \in 1..(s[k] - 1) : \E j \in 1..(k - 1) : s[j] = r}

\* data.results of the Packagist search: up to two packages
PkgLists == UNION {[1..n -> PkgNames] : n \in 0..2}

\* main() constructs the fetcher and calls fetchModules(), which calls
\* searchGitHubRepositories()
Start ==
    /\ pc = "start"
    /\ pc' = "query"
    /\ UNCHANGED <<netVars, envVars, unitVars, searchVars, modules, pkgVars, outVars, devs>>

\* mutant of NextQuery: the queries stop once MAX_MODULES records are collected
NextQuery_StopAtMax ==
    /\ pc = "query"
    /\ IF q > Len(searchQueries) \/ Len(modules) >= MAX_MODULES
       THEN /\ pc' = "searched"
            /\ ghModules' = modules
            /\ NoFetch
       ELSE /\ pc' = "search"
            /\ Fetch(SearchUrl(searchQueries[q]))
            /\ UNCHANGED ghModules
    /\ UNCHANGED <<notFoundCache, envVars, unitVars, searchVars, modules, pkgVars,
                   pkgModules, result, file, devs>>

\* head of `for (const query of searchQueries)`
NextQuery ==
    /\ pc = "query"
    /\ IF q > Len(searchQueries) \/ Len(modules) >= MAX_MODULES * 3
       THEN /\ pc' = "searched"
            /\ ghModules' = modules
            /\ NoFetch
       ELSE /\ pc' = "search"
            /\ Fetch(SearchUrl(searchQueries[q]))
            /\ UNCHANGED ghModules
    /\ UNCHANGED <<notFoundCache, envVars, unitVars, searchVars, modules, pkgVars,
                   pkgModules, result, file, devs>>

\* the network answers the pending request of the sequential thread
Respond ==
    /\ pc \in {"search", "validate", "manifest", "release", "version", "pkgsearch"}
    /\ cur.st = "wait"
    /\ \E s \in PipelineStatuses :
          /\ outage => s # "200"
          /\ Allowed(EnvCost(cur, s))
          /\ devs' = devs + EnvCost(cur, s)
          /\ cur' = OnResponse(cur, s)
          /\ notFoundCache' = CacheAfter(notFoundCache, cur.url, s)
    /\ UNCHANGED <<requestCount, netLookups, envVars, unitVars, pc, searchVars,
                   modules, pkgVars, outVars>>

\* mutant of SearchDone: the failure of a query is not caught per query
SearchDone_Abort ==
    /\ pc = "search"
    /\ Finished(cur)
    /\ \/ /\ cur.st = "ok"
          /\ \E bulk \in (IF q = 1 THEN BOOLEAN ELSE {FALSE}), fl \in FreeLists :
                /\ items' = (IF bulk THEN BulkItems ELSE <<>>) \o fl
                /\ pc' = "item"
                /\ UNCHANGED <<q, devs>>
       \/ /\ cur.st = "ok"
          /\ Allowed(1)
          /\ devs' = devs + 1
          /\ items' = <<>>
          /\ q' = q + 1
          /\ pc' = "query"
       \/ /\ cur.st = "threw"
          /\ items' = <<>>
          /\ pc' = "threw"
          /\ UNCHANGED <<q, devs>>
    /\ NoFetch
    /\ UNCHANGED <<notFoundCache, envVars, unitVars, foundRepos, repo, ex, modules, pkgVars, outVars>>

\* the search lookup ended: data.items, or the catch of the query
SearchDone ==
    /\ pc = "search"
    /\ Finished(cur)
    /\ \/ /\ cur.st = "ok"
          /\ \E bulk \in (IF q = 1 THEN BOOLEAN ELSE {FALSE}), fl \in FreeLists :
                /\ items' = (IF bulk THEN BulkItems ELSE <<>>) \o fl
                /\ pc' = "item"
                /\ UNCHANGED <<q, devs>>
       \/ /\ cur.st = "ok"
          /\ Allowed(1)
          /\ devs' = devs + 1
          /\ items' = <<>>
          /\ q' = q + 1
          /\ pc' = "query"
       \/ /\ cur.st = "threw"
          /\ items' = <<>>
          /\ q' = q + 1
          /\ pc' = "query"
          /\ UNCHANGED devs
    /\ NoFetch
    /\ UNCHANGED <<notFoundCache, envVars, unitVars, foundRepos, repo, ex, modules, pkgVars, outVars>>

\* mutant of AlreadyFound: no candidate counts as seen
AlreadyFound_Never(r, found) == FALSE

\* foundRepos.has(repo.full_name)
AlreadyFound(r, found) == r \in found

\* mutant of MarkFound: the candidate is not marked as seen
MarkFound_Skip(found, r) == found

\* foundRepos.add(repo.full_name)
MarkFound(found, r) == found \cup {r}

\* head of `for (const repo of data.items || [])`
NextItem ==
    /\ pc = "item"
    /\ IF items = <<>> \/ Len(modules) >= MAX_MODULES
       THEN /\ q' = q + 1
            /\ pc' = "query"
            /\ items' = <<>>
            /\ NoFetch
            /\ UNCHANGED <<foundRepos, repo, devs>>
       ELSE IF AlreadyFound(Head(items), foundRepos)
       THEN /\ items' = Tail(items)
            /\ NoFetch
            /\ UNCHANGED <<q, pc, foundRepos, repo, devs>>
       ELSE \E a \in RepoChoices(Head(items)) :
               /\ devs + RepoCost(a) <= MaxDeviations
               /\ devs' = devs + RepoCost(a)
               /\ repo' = a
               /\ foundRepos' = MarkFound(foundRepos, a.id)
               /\ items' = Tail(items)
               /\ pc' = "validate"
               /\ Fetch(ManifestUrl(a.id))
               /\ UNCHANGED q
    /\ UNCHANGED <<notFoundCache, envVars, unitVars, ex, modules, pkgVars, outVars>>

\* validateSilverstripeModule returns; extractModuleData starts if it is true
ValidateDone ==
    /\ pc = "validate"
    /\ Finished(cur)
    /\ \E b \in ValidateBodies :
          /\ Allowed(ValidateCost(b))
          /\ cur.st # "ok" => ValidateCost(b) = 0
          /\ devs' = devs + ValidateCost(b)
          /\ IF ValidateSilverstripeModule(repo, cur.st, b)
             THEN /\ ex' = ExtractStart(repo)
                  /\ pc' = "manifest"
                  /\ Fetch(ManifestUrl(repo.id))
                  /\ UNCHANGED repo
             ELSE /\ pc' = "item"
                  /\ repo' = NoRepo
                  /\ NoFetch
                  /\ UNCHANGED ex
    /\ UNCHANGED <<notFoundCache, envVars, unitVars, q, items, foundRepos, modules, pkgVars, outVars>>

\* extractModuleData: the manifest lookup ended
ManifestDone ==
    /\ pc = "manifest"
    /\ Finished(cur)
    /\ \E b \in ManifestBodies :
          /\ Allowed(ManifestCost(b))
          /\ cur.st # "ok" => ManifestCost(b) = 0
          /\ devs' = devs + ManifestCost(b)
          /\ ex' = ExtractManifest(ex, repo, cur.st, b)
    /\ pc' = "release"
    /\ Fetch(ReleaseUrl(repo.id))
    /\ UNCHANGED <<notFoundCache, envVars, unitVars, q, items, foundRepos, repo, modules,
                   pkgVars, outVars>>

\* extractModuleData: the latest-release lookup ended; getLatestVersion starts
ReleaseDone ==
    /\ pc = "release"
    /\ Finished(cur)
    /\ \E b \in ReleaseBodies :
          /\ Allowed(ReleaseCost(b))
          /\ cur.st # "ok" => ReleaseCost(b) = 0
          /\ devs' = devs + ReleaseCost(b)
          /\ ex' = ExtractRelease(ex, cur.st, b)
    /\ pc' = "version"
    /\ Fetch(ReleaseUrl(repo.id))
    /\ UNCHANGED <<notFoundCache, envVars, unitVars, q, items, foundRepos, repo, modules,
                   pkgVars, outVars>>

\* getLatestVersion returns, extractModuleData returns, modules.push
VersionDone ==
    /\ pc = "version"
    /\ Finished(cur)
    /\ \E b \in VersionBodies :
          /\ Allowed(VersionCost(b))
          /\ cur.st # "ok" => VersionCost(b) = 0
          /\ devs' = devs + VersionCost(b)
          /\ modules' = Append(modules, ModuleData(ex, repo, GetLatestVersion(cur.st, b)))
    /\ pc' = "item"
    /\ repo' = NoRepo
    /\ ex' = NoExtract
    /\ NoFetch
    /\ UNCHANGED <<notFoundCache, envVars, unitVars, q, items, foundRepos, pkgVars, outVars>>

\* mutant of AfterSearch: the fallback runs whatever the search returned
AfterSearch_Always ==
    /\ pc = "searched"
    /\ pc' = "pkgsearch"
    /\ cur' = NewCall(PkgSearchUrl, DefaultMaxRetries)
    /\ netLookups' = Bump(netLookups, PkgSearchUrl)
    /\ UNCHANGED <<notFoundCache, requestCount, envVars, unitVars, searchVars, modules, pkgVars,
                   outVars, devs>>

\* fetchModules, line 446: fallbackToPackagist() calls fetchWithRetry itself
AfterSearch ==
    /\ pc = "searched"
    /\ IF Len(modules) < MAX_MODULES
       THEN /\ pc' = "pkgsearch"
            /\ cur' = NewCall(PkgSearchUrl, DefaultMaxRetries)
            /\ netLookups' = Bump(netLookups, PkgSearchUrl)
            /\ UNCHANGED requestCount
       ELSE /\ pc' = "sort"
            /\ NoFetch
    /\ UNCHANGED <<notFoundCache, envVars, unitVars, searchVars, modules, pkgVars, outVars, devs>>

Pending == [tag |-> "pending", m |-> NoModule]

Null == [tag |-> "null", m |-> NoModule]

Resolved(m) == [tag |-> "module", m |-> m]

Count(urls, u) == Cardinality({k \in 1..Len(urls) : urls[k] = u})

\* the Packagist search ended.  data.results.map starts every
\* extractPackagistModuleData at once: each runs up to its `await fetch`.
\* Any failure ends in the catch of fallbackToPackagist, which returns [].
PkgSearchDone ==
    /\ pc = "pkgsearch"
    /\ Finished(cur)
    /\ \/ /\ cur.st = "ok"
          /\ \E names \in PkgLists :
                LET urls == [k \in 1..Len(names) |-> PkgUrl(names[k])] IN
                /\ pkgResults' = names
                /\ tasks' = [k \in 1..Len(names) |-> NewCall(urls[k], DefaultMaxRetries)]
                /\ pkgOut' = [k \in 1..Len(names) |-> Pending]
                /\ netLookups' = [u \in AllUrls |-> netLookups[u] + Count(urls, u)]
          /\ pc' = "pkgdetail"
          /\ UNCHANGED <<devs, pkgModules, modules>>
       \/ /\ \/ cur.st = "ok" /\ Allowed(1) /\ devs' = devs + 1
             \/ cur.st = "threw" /\ UNCHANGED devs
          /\ pkgModules' = <<>>
          /\ modules' = Merge(modules, <<>>)
          /\ pc' = "sort"
          /\ UNCHANGED <<pkgVars, netLookups>>
    /\ cur' = IdleCall
    /\ UNCHANGED <<notFoundCache, requestCount, envVars, unitVars, searchVars, ghModules,
                   result, file>>

\* the network answers the pending request of one promise
DetailRespond ==
    /\ pc = "pkgdetail"
    /\ \E k \in 1..Len(tasks), s \in PipelineStatuses :
          /\ tasks[k].st = "wait"
          /\ outage => s # "200"
          /\ Allowed(EnvCost(tasks[k], s))
          /\ devs' = devs + EnvCost(tasks[k], s)
          /\ tasks' = [tasks EXCEPT ![k] = OnResponse(@, s)]
          /\ notFoundCache' = CacheAfter(notFoundCache, tasks[k].url, s)
    /\ UNCHANGED <<requestCount, cur, netLookups, envVars, unitVars, pc, searchVars,
                   modules, pkgResults, pkgOut, outVars>>

\* the backoff timer of one promise fires
DetailWake ==
    /\ pc = "pkgdetail"
    /\ \E k \in 1..Len(tasks) :
          /\ tasks[k].st = "sleep"
          /\ tasks' = [tasks EXCEPT ![k] = OnWake(@)]
    /\ UNCHANGED <<notFoundCache, requestCount, cur, netLookups, envVars, unitVars, pc,
                   searchVars, modules, pkgResults, pkgOut, outVars, devs>>

\* extractPackagistModuleData resolves: a record, or null from its catch
DetailDone ==
    /\ pc = "pkgdetail"
    /\ \E k \in 1..Len(tasks), b \in DetailBodies :
          /\ Finished(tasks[k])
          /\ pkgOut[k] = Pending
          /\ Allowed(DetailCost(b))
          /\ tasks[k].st # "ok" => DetailCost(b) = 0
          /\ devs' = devs + DetailCost(b)
          /\ pkgOut' = [pkgOut EXCEPT ![k] =
                           IF tasks[k].st = "ok" /\ b.ok
                           THEN Resolved(PackagistModuleData(pkgResults[k], b))
                           ELSE Null]
    /\ UNCHANGED <<netVars, envVars, unitVars, pc, searchVars, modules, pkgResults, tasks, outVars>>

RECURSIVE NonNull(_)
NonNull(out) ==
    IF out = <<>> THEN <<>>
    ELSE IF Head(out) = Null THEN NonNull(Tail(out))
    ELSE <<Head(out).m>> \o NonNull(Tail(out))

\* mutant of PkgAllDone: the promises are not awaited
PkgAllDone_NoAwait ==
    /\ pc = "pkgdetail"
    /\ pkgModules' = <<>>
    /\ modules' = Merge(modules, <<>>)
    /\ pc' = "sort"
    /\ UNCHANGED <<netVars, envVars, unitVars, searchVars, pkgVars, ghModules, result, file, devs>>

\* Promise.all resolves, fallbackToPackagist returns the non-null records,
\* fetchModules merges them (lines 451-453)
PkgAllDone ==
    /\ pc = "pkgdetail"
    /\ \A k \in 1..Len(pkgOut) : pkgOut[k] # Pending
    /\ pkgModules' = NonNull(pkgOut)
    /\ modules' = Merge(modules, NonNull(pkgOut))
    /\ pc' = "sort"
    /\ pkgResults' = <<>>
    /\ tasks' = <<>>
    /\ pkgOut' = <<>>
    /\ UNCHANGED <<netVars, envVars, unitVars, searchVars, ghModules, result, file, devs>>

\* lines 462-472: sort, truncate, log the first three, return
Finish ==
    /\ pc = "sort"
    /\ modules' = SortAndLimit(modules)
    /\ IF LogTop3Throws(SortAndLimit(modules))
       THEN pc' = "threw" /\ UNCHANGED result
       ELSE pc' = "returned" /\ result' = SortAndLimit(modules)
    /\ UNCHANGED <<netVars, envVars, unitVars, searchVars, pkgVars, ghModules, pkgModules, file, devs>>

\* main(): fetchModules returned, data/modules.json is written
MainWrite ==
    /\ pc = "returned"
    /\ file' = [writes |-> file.writes + 1, content |-> result]
    /\ pc' = "exit0"
    /\ UNCHANGED <<netVars, envVars, unitVars, searchVars, modules, pkgVars, ghModules,
                   pkgModules, result, devs>>

\* mutant of MainFail: the records collected so far are written before exit
MainFail_WritesPartial ==
    /\ pc = "threw"
    /\ pc' = "exit1"
    /\ file' = [writes |-> file.writes + 1, content |-> modules]
    /\ UNCHANGED <<netVars, envVars, unitVars, searchVars, modules, pkgVars, ghModules,
                   pkgModules, result, devs>>

\* main(): fetchModules threw, process.exit(1)
MainFail ==
    /\ pc = "threw"
    /\ pc' = "exit1"
    /\ UNCHANGED <<netVars, envVars, unitVars, searchVars, modules, pkgVars, outVars, devs>>

Init ==
    /\ notFoundCache = {}
    /\ requestCount = 0
    /\ maxRetries = DefaultMaxRetries
    /\ headers \in {ConstructorHeaders(token) : token \in BOOLEAN}
    /\ outage \in BOOLEAN
    /\ cur = IdleCall
    /\ netLookups = [u \in AllUrls |-> 0]
    /\ PipeInit

Next ==
    \/ Start
    \/ NextQuery
    \/ Respond
    \/ Wake
    \/ SearchDone
    \/ NextItem
    \/ ValidateDone
    \/ ManifestDone
    \/ ReleaseDone
    \/ VersionDone
    \/ AfterSearch
    \/ PkgSearchDone
    \/ DetailRespond
    \/ DetailWake
    \/ DetailDone
    \/ PkgAllDone
    \/ Finish
    \/ MainWrite
    \/ MainFail

Spec == Init /\ [][Next]_vars

\* the steps of Next whose effect is not a sort of the whole list
Steps ==
    \/ Start
    \/ NextQuery
    \/ Respond
    \/ Wake
    \/ SearchDone
    \/ NextItem
    \/ ValidateDone
    \/ ManifestDone
    \/ ReleaseDone
    \/ VersionDone
    \/ AfterSearch
    \/ PkgSearchDone
    \/ DetailRespond
    \/ DetailWake
    \/ DetailDone
    \/ PkgAllDone
    \/ MainWrite
    \/ MainFail

\* a run with GITHUB_TOKEN set: no step reads this.headers
LiveInit == Init /\ headers = ConstructorHeaders(TRUE)

\* the run under the assumption that every pending request is answered (by a
\* response or a rejection), every timer fires and the event loop runs every
\* continuation that is ready: a step is taken whenever one is possible
\* Finish is enabled exactly when pc = "sort", and it always leaves "sort":
\* weak fairness of Finish says that the run does not stay there for ever
SpecLive ==
    /\ LiveInit
    /\ [][Next]_vars
    /\ WF_vars(Steps)
    /\ []<>(pc # "sort")

(***************************************************************************)
(* SpecUnit: validateSilverstripeModule and the manifest part of           *)
(* extractModuleData called as units, on every candidate, with every body  *)
(* and every way their lookup can end.                                     *)
(***************************************************************************)
\* the candidates the methods are called on: those of a run, and those whose
\* item carries neither pushed_at nor updated_at
UnitRepoChoices(r) ==
    RepoChoices(r) \cup
        [id : {r}, nameMarker : BOOLEAN, desc : {"none", "plain", "marked"},
         pushed_at : {Absent}, updated_at : {Absent}]

UnitInit ==
    /\ notFoundCache = {}
    /\ requestCount = 0
    /\ maxRetries = DefaultMaxRetries
    /\ headers = ConstructorHeaders(FALSE)
    /\ outage = FALSE
    /\ cur = IdleCall
    /\ netLookups = [u \in AllUrls |-> 0]
    /\ unit = NoUnit
    /\ body = NoBody
    /\ pc = "unit"
    /\ repo \in UNION {UnitRepoChoices(r) : r \in FreeRepos}
    /\ q = 1
    /\ items = <<>>
    /\ foundRepos = {}
    /\ modules = <<>>
    /\ ex = NoExtract
    /\ pkgResults = <<>>
    /\ tasks = <<>>
    /\ pkgOut = <<>>
    /\ ghModules = <<>>
    /\ pkgModules = <<>>
    /\ result = <<>>
    /\ file = [writes |-> 0, content |-> <<>>]
    /\ devs = 0

\* validateSilverstripeModule(repo) up to `await this.rateLimitedFetch`
UnitValidateCall ==
    /\ pc = "unit"
    /\ netLookups[ManifestUrl(repo.id)] < MaxCalls
    /\ body' \in ValidateBodies
    /\ Fetch(ManifestUrl(repo.id))
    /\ pc' = "uvalidate"
    /\ UNCHANGED <<notFoundCache, envVars, unit, searchVars, modules, pkgVars, outVars, devs>>

\* validateSilverstripeModule returns
UnitValidateDone ==
    /\ pc = "uvalidate"
    /\ Finished(cur)
    /\ unit' = [op |-> "validate", st |-> cur.st,
                verdict |-> ValidateSilverstripeModule(repo, cur.st, body)]
    /\ pc' = "unit"
    /\ UNCHANGED <<netVars, envVars, body, searchVars, modules, pkgVars, outVars, devs>>

\* extractModuleData(repo) up to the `await this.rateLimitedFetch` of the manifest
UnitExtractCall ==
    /\ pc = "unit"
    /\ netLookups[ManifestUrl(repo.id)] < MaxCalls
    /\ body' \in ManifestBodies
    /\ ex' = ExtractStart(repo)
    /\ Fetch(ManifestUrl(repo.id))
    /\ pc' = "uextract"
    /\ UNCHANGED <<notFoundCache, envVars, unit, q, items, foundRepos, repo, modules,
                   pkgVars, outVars, devs>>

\* extractModuleData: the manifest lookup ended, packageName and description
\* are what the record will carry
UnitExtractDone ==
    /\ pc = "uextract"
    /\ Finished(cur)
    /\ ex' = ExtractManifest(ex, repo, cur.st, body)
    /\ unit' = [op |-> "extract", st |-> cur.st, verdict |-> FALSE]
    /\ pc' = "unit"
    /\ UNCHANGED <<netVars, envVars, body, q, items, foundRepos, repo, modules,
                   pkgVars, outVars, devs>>

\* extractModuleData goes on after the manifest: up to the `await
\* this.rateLimitedFetch` of the latest release
UnitReleaseCall ==
    /\ pc = "unit"
    /\ unit.op = "extract"
    /\ netLookups[ReleaseUrl(repo.id)] < MaxCalls
    /\ body' \in ReleaseBodies
    /\ Fetch(ReleaseUrl(repo.id))
    /\ pc' = "urelease"
    /\ UNCHANGED <<notFoundCache, envVars, unit, searchVars, modules, pkgVars, outVars, devs>>

\* extractModuleData: the latest-release lookup ended, publishedDate is what
\* the record will carry as `published`
UnitReleaseDone ==
    /\ pc = "urelease"
    /\ Finished(cur)
    /\ ex' = ExtractRelease(ex, cur.st, body)
    /\ unit' = [op |-> "release", st |-> cur.st, verdict |-> FALSE]
    /\ pc' = "unit"
    /\ UNCHANGED <<netVars, envVars, body, q, items, foundRepos, repo, modules,
                   pkgVars, outVars, devs>>

\* the network answers the pending request of the unit's lookup
UnitRespond ==
    /\ pc \in {"uvalidate", "uextract", "urelease"}
    /\ cur.st = "wait"
    /\ \E s \in PipelineStatuses :
          /\ cur' = OnResponse(cur, s)
          /\ notFoundCache' = CacheAfter(notFoundCache, cur.url, s)
    /\ UNCHANGED <<requestCount, netLookups, envVars, unitVars, pipeVars>>

UnitNext ==
    \/ UnitValidateCall
    \/ UnitValidateDone
    \/ UnitExtractCall
    \/ UnitExtractDone
    \/ UnitReleaseCall
    \/ UnitReleaseDone
    \/ UnitRespond
    \/ Wake

SpecUnit == UnitInit /\ [][UnitNext]_vars

(***************************************************************************)
(* Claims.                                                                 *)
(***************************************************************************)
\* fetchModules() has returned (main may have written the file since)
Returned == pc \in {"returned", "exit0"}

\* fetchModules() has returned or thrown
Ended == pc \in {"returned", "exit0", "threw", "exit1"}

\* what line 453 holds, or line 444 when the fallback is skipped
Merged == Merge(ghModules, pkgModules)

\* newest first, by the parsed timestamps
SortedNewestFirst(ms) ==
    \A k \in 1..(Len(ms) - 1) : ParseDate(ms[k]) >= ParseDate(ms[k + 1])

\* every response is a failure other than 404
AllFail(resps) == \A k \in 1..Len(resps) : resps[k] \notin {"200", "404"}

\* C1: the list fetchModules() returns has at most MAX_MODULES = 20 records
C1_AtMostMaxModules == Returned => Len(result) <= 20

\* C1 witness: a returned list cut down from a longer merged one
C1_Witness == Returned /\ Len(Merged) > 20 /\ Len(result) = 20

\* C2: the returned list is sorted non-increasing by parsed `published`,
\* primary (ISO string) and secondary (Date object) records mixed
C2_SortedNewestFirst == Returned => SortedNewestFirst(result)

\* C2 witness: a returned list with records of both providers whose merged
\* input was not in order
C2_Witness ==
    /\ Returned
    /\ \E k \in 1..Len(result) : HasSplit(result[k])
    /\ \E k \in 1..Len(result) : ~HasSplit(result[k])
    /\ ~SortedNewestFirst(Merged)

\* C3 (as claimed): no two records of the returned list have the same name
C3_DistinctNames ==
    Returned => \A i, j \in 1..Len(result) : i # j => result[i].name # result[j].name

\* C4: after the merge every primary record is kept, in place, and no
\* record after them carries the name of a primary record
C4_MergeKeepsPrimary ==
    pc = "sort" =>
        /\ Len(modules) >= Len(ghModules)
        /\ SubSeq(modules, 1, Len(ghModules)) = ghModules
        /\ \A k \in (Len(ghModules) + 1)..Len(modules) :
              /\ modules[k].name \notin Names(ghModules)
              /\ \E j \in 1..Len(pkgModules) : pkgModules[j] = modules[k]

\* C4 witness: the merge met a secondary record with a primary record's name
C4_Witness ==
    /\ pc = "sort"
    /\ \E j \in 1..Len(pkgModules) : pkgModules[j].name \in Names(ghModules)

\* C5 (as claimed): when both providers together yield at least 20 distinct
\* names, fetchModules() returns exactly 20 records
C5_ExactlyMaxWhenEnough ==
    (Ended /\ Cardinality(Names(ghModules) \cup Names(pkgModules)) >= 20)
        => (Returned /\ Len(result) = 20)

\* C6: a first response of 404 ends the call: one request, no sleep, a throw
C6_NotFoundIsTerminal ==
    (cur.mr >= 1 /\ cur.resps # <<>> /\ cur.resps[1] = "404")
        => (cur.st = "threw" /\ cur.err = "404" /\ cur.nreq = 1
              /\ cur.slept = <<>> /\ Len(cur.resps) = 1)

\* C6 witness: a call with the largest maxRetries answered 404 at once
C6_Witness == cur.mr = MaxRetriesTried /\ cur.resps = <<"404">> /\ cur.st = "threw"

\* this step sends a request for u over the network: a call of the
\* sequential thread or of a promise enters `await fetch(url)`
Sends(u) ==
    \/ cur'.url = u /\ cur'.st = "wait" /\ cur.st # "wait"
    \/ \E k \in 1..Len(tasks') :
          /\ tasks'[k].url = u
          /\ tasks'[k].st = "wait"
          /\ k \in 1..Len(tasks) => tasks[k].st # "wait"

\* C7 (as claimed): once a URL is in the 404 cache nothing is sent over the
\* network for it again, whichever operation looks it up
C7_NoRequestAfter404 ==
    [][\A u \in notFoundCache : ~Sends(u)]_vars

\* C8 (as claimed): no URL is sent over the network by two lookups
C8_EachUrlOneLookup == \A u \in AllUrls : netLookups[u] <= 1

\* C8 (amended): a search URL is sent by at most one lookup, a candidate's
\* manifest URL and latest-release URL by at most two each
C8_AtMostTwoLookups ==
    /\ \A n \in 1..Len(searchQueries) : netLookups[SearchUrl(searchQueries[n])] <= 1
    /\ \A r \in Repos :
          netLookups[ManifestUrl(r)] <= 2 /\ netLookups[ReleaseUrl(r)] <= 2

\* C8 witness: a candidate whose two URLs were both fetched twice
C8_Witness ==
    \E r \in Repos : netLookups[ManifestUrl(r)] = 2 /\ netLookups[ReleaseUrl(r)] = 2

\* C9: when every attempt fails with a non-404 error the call sends exactly
\* maxRetries requests and throws the last error; it never sends more
C9_ExactlyMaxRetries ==
    /\ cur.mr >= 1 => cur.nreq <= cur.mr
    /\ (cur.mr >= 1 /\ Finished(cur) /\ cur.resps # <<>> /\ AllFail(cur.resps))
          => /\ cur.st = "threw"
             /\ cur.nreq = cur.mr
             /\ Len(cur.resps) = cur.mr
             /\ cur.err = cur.resps[Len(cur.resps)]

\* C9 witness: a call with the largest maxRetries failed on every attempt,
\* the last time with a network exception
C9_Witness ==
    /\ cur.mr = MaxRetriesTried
    /\ cur.st = "threw"
    /\ cur.nreq = MaxRetriesTried
    /\ AllFail(cur.resps)
    /\ cur.err = NetErr
    /\ cur.resps[1] # NetErr

C11_QueryFailureIsolated ==
    [][/\ (pc = "search" /\ Finished(cur) /\ cur.st = "threw")
            => (modules' = modules /\ pc' = "query" /\ q' = q + 1)
       /\ (pc = "query" /\ q <= Len(searchQueries))
            => (pc' = "search" /\ cur'.url = SearchUrl(searchQueries[q]))
       /\ pc' = "threw" => pc = "sort"]_vars

\* C11 witness: the search ended with the records of the first query although
\* the second query's request was answered 404
C11_Witness ==
    /\ pc = "searched"
    /\ SearchUrl(searchQueries[2]) \in notFoundCache
    /\ SearchUrl(searchQueries[1]) \notin notFoundCache
    /\ Len(ghModules) > 0

\* C12 (as claimed): the search stops at the ceiling of 3 * MAX_MODULES
\* records, which can be reached: no search request is sent at or above the
\* ceiling, and the loop over a query's items is left with items unvisited
\* only when the ceiling is reached
C12_StopsAtCeiling ==
    [][/\ (pc = "query" /\ Len(modules) >= 3 * 20) => pc' # "search"
       /\ (pc = "item" /\ items # <<>> /\ pc' = "query") => Len(modules) >= 3 * 20]_vars

\* searchGitHubRepositories has returned and line 446 has been passed
PastFallbackTest ==
    pc \in {"pkgsearch", "pkgdetail", "sort", "returned", "threw", "exit0", "exit1"}

\* C13: the fallback runs exactly when the search returned fewer than 20
\* records: then the Packagist search is looked up; with 20 records nothing
\* is sent to Packagist and the returned list holds GitHub records only
C13_FallbackIffTooFew ==
    /\ (PastFallbackTest /\ Len(ghModules) < 20) => netLookups[PkgSearchUrl] = 1
    /\ (~PastFallbackTest \/ Len(ghModules) >= 20)
          => /\ \A u \in PackagistUrls : netLookups[u] = 0
             /\ tasks = <<>>
             /\ pkgModules = <<>>
    /\ (Returned /\ Len(ghModules) >= 20)
          => \A k \in 1..Len(result) : \E j \in 1..Len(ghModules) : result[k] = ghModules[j]

\* C13 witness: the search returned 20 records, no request went to Packagist
\* and fetchModules returned 20 records
C13_Witness ==
    /\ Returned
    /\ Len(ghModules) = 20
    /\ Len(result) = 20
    /\ netLookups[PkgSearchUrl] = 0

\* C14 (as claimed): whatever Packagist answers, fetchModules() does not
\* throw: the run never reaches the catch of main()
C14_FallbackNeverFails == pc \notin {"threw", "exit1"}

\* C15 (as claimed): when every request of the run fails, the run ends in
\* failure, with exit code 1 and no file written
C15_OutageIsFatal ==
    (outage /\ pc \in {"exit0", "exit1"}) => (pc = "exit1" /\ file.writes = 0)

\* C16: data/modules.json is written at most once, only after fetchModules()
\* has returned and with the list it returned; when fetchModules() throws the
\* file is not written and the process exits with code 1
C16_WrittenOnceAfterReturn ==
    /\ [](/\ file.writes <= 1
          /\ file.writes = 1 => (pc = "exit0" /\ file.content = result)
          /\ pc = "exit0" => file.writes = 1
          /\ pc \in {"threw", "exit1"} => (file.writes = 0 /\ file.content = <<>>))
    /\ [][pc = "threw" => pc' = "exit1"]_vars

\* C16 witness: fetchModules threw with records collected, the process
\* exited with code 1 and the file was not written
C16_Witness == pc = "exit1" /\ Len(modules) > 0 /\ file.writes = 0

\* requests in flight: pending fetches of the sequential thread and of the
\* extractPackagistModuleData promises
InFlight == Waiting(<<cur>>) + Waiting(tasks)

C18_TokenOnlyToGitHub ==
    [][\A u \in PackagistUrls :
          Sends(u) => "Authorization" \notin RequestHeaders(headers, {})]_vars

\* C19: when the manifest lookup of validateSilverstripeModule fails (404,
\* cached 404, retries used up) or the manifest cannot be decoded or parsed,
\* the method returns instead of throwing, and what it returns is true
\* exactly when the full name or the description contains 'silverstripe'
C19_ValidateFallsBack ==
    (unit.op = "validate" /\ pc = "unit" /\ (unit.st # "ok" \/ ~body.ok))
        => (unit.verdict <=> (repo.nameMarker \/ repo.desc = "marked"))

\* C19 witness: the manifest URL was a cached 404, the name does not contain
\* 'silverstripe' but the description does, and the method returned true
C19_Witness ==
    /\ unit.op = "validate"
    /\ pc = "unit"
    /\ unit.st = "threw"
    /\ cur.err = Cached404
    /\ ~repo.nameMarker
    /\ repo.desc = "marked"
    /\ unit.verdict

\* C20: after the manifest part of extractModuleData, a manifest that was
\* fetched and parsed and declares a name gives the record its name instead
\* of the full_name, and likewise its description; a manifest without a name
\* leaves the full_name
C20_ManifestNameWins ==
    (unit.op = "extract" /\ pc = "unit" /\ unit.st = "ok" /\ body.ok)
        => /\ body.name = "own" => ex.packageName = OwnPackage(repo.id)
           /\ body.name = "fork" => ex.packageName = ForkedPackage
           /\ body.name # "none" => ex.packageName # FullName(repo.id)
           /\ body.name = "none" => ex.packageName = FullName(repo.id)
           /\ body.hasDesc => ex.description = "manifest"

\* C20 witness: a parsed manifest with a name and a description replaced the
\* full_name and the repository's description
C20_Witness ==
    /\ unit.op = "extract"
    /\ pc = "unit"
    /\ unit.st = "ok"
    /\ body.ok
    /\ body.name = "fork"
    /\ body.hasDesc
    /\ ex.packageName = ForkedPackage
    /\ ex.description = "manifest"
    /\ repo.desc = "plain"

\* the manifest lookup of validateSilverstripeModule has thrown
ValidateLookupThrew == pc = "validate" /\ Finished(cur) /\ cur.st = "threw"

C22_FallsBackToTags ==
    [][(pc = "version" /\ Finished(cur) /\ cur.st = "threw")
          => (cur'.url = TagsUrl(repo.id) /\ cur'.st = "wait" /\ modules' = modules)]_vars

\* extractModuleData, called as a unit, has passed its latest-release lookup
UnitPublished == unit.op = "release" /\ pc = "unit"

\* validateSilverstripeModule, called as a unit, has returned
UnitValidated == unit.op = "validate" /\ pc = "unit"

\* C23 (as claimed): every record of extractModuleData has a defined
\* `published`, also for a candidate that carries neither a push nor an
\* update timestamp
C23_PublishedDefined == UnitPublished => ex.publishedDate # Absent

\* C24 (as claimed): validateSilverstripeModule returns true whenever the
\* manifest it read carries a marker or the candidate's full name or
\* description contains 'silverstripe'
C24_TrueWheneverMarked ==
    (UnitValidated /\ (\/ unit.st = "ok" /\ body.ok /\ body.marker # "none"
                       \/ repo.nameMarker
                       \/ repo.desc = "marked"))
        => unit.verdict

\* C24 (amended): when the manifest was fetched and parsed, the method
\* returns true exactly when its type, a keyword or its name carries the
\* marker; the candidate's full name and description are not looked at
C24_ManifestDecidesWhenReadable ==
    (UnitValidated /\ unit.st = "ok" /\ body.ok)
        => (unit.verdict <=> body.marker \in {"type", "keyword", "name"})

\* C24 witness: a readable manifest without a marker, a candidate whose full
\* name and description contain 'silverstripe', and the method returned false
C24_Witness ==
    /\ UnitValidated
    /\ unit.st = "ok"
    /\ body.ok
    /\ body.marker = "none"
    /\ repo.nameMarker
    /\ repo.desc = "marked"
    /\ ~unit.verdict

InSearch ==
    pc \in {"query", "search", "item", "validate", "manifest", "release", "version"}

C27_ReturnsOrThrows ==
    Finished(cur) =>
        \/ cur.st = "ok" /\ cur.resps # <<>> /\ IsOk(cur.resps[Len(cur.resps)])
        \/ cur.st = "threw"

\* this step delivers a response with status s (or a rejection, NetErr) to a
\* fetchWithRetry call for u
Receives(u, s) ==
    \/ /\ cur.url = u
       /\ cur.st = "wait"
       /\ Len(cur'.resps) = Len(cur.resps) + 1
       /\ cur'.resps[Len(cur'.resps)] = s
    \/ \E k \in 1..Len(tasks) :
          /\ tasks[k].url = u
          /\ tasks[k].st = "wait"
          /\ Len(tasks') = Len(tasks)
          /\ Len(tasks'[k].resps) = Len(tasks[k].resps) + 1
          /\ tasks'[k].resps[Len(tasks'[k].resps)] = s

\* C28: the 404 cache starts empty and only grows; a URL enters it in the
\* very step in which a 404 response is received for it, and in no other:
\* not with a 200, a 403, a 422, a 5xx or a network exception, and not with
\* a lookup that is refused because the URL is cached
C28_CacheSoundAndMonotone ==
    /\ notFoundCache = {}
    /\ [][/\ notFoundCache \subseteq notFoundCache'
          /\ \A u \in AllUrls :
                /\ Receives(u, "404") => u \in notFoundCache'
                /\ (u \in notFoundCache' /\ u \notin notFoundCache) => Receives(u, "404")]_vars

\* C28 witness: one URL was answered 404 and is cached; a later call for the
\* other URL failed on every attempt, the last time with a network
\* exception, and that URL is not cached
C28_Witness ==
    /\ notFoundCache = {ManifestUrl(1)}
    /\ cur.url = ReleaseUrl(1)
    /\ cur.st = "threw"
    /\ cur.err = NetErr
    /\ Len(cur.resps) >= 2
    /\ cur.resps[1] = "403"

\* this step starts the validation of candidate r
StartsValidation(r) == pc' = "validate" /\ pc # "validate" /\ repo'.id = r

\* C29: the validation of a candidate starts only if its full_name has not
\* been seen in this run, and marks it as seen in the same step, before any
\* answer is known; a seen name is never forgotten, its items are skipped
\* without a request, and an extraction is always that of the candidate just
\* validated: so each full_name is validated and extracted at most once,
\* whatever became of the first attempt
C29_ValidatedAtMostOnce ==
    [][/\ foundRepos \subseteq foundRepos'
       /\ \A r \in Repos :
             StartsValidation(r) =>
                 (r \notin foundRepos /\ r \in foundRepos' /\ pc = "item")
       /\ (pc' = "manifest" /\ pc # "manifest") => (pc = "validate" /\ repo' = repo)
       /\ (pc = "item" /\ items # <<>> /\ Head(items) \in foundRepos) =>
             (pc' \in {"item", "query"} /\ repo' = repo /\ cur'.st # "wait")]_vars

\* C29 witness: the second query lists a candidate again that the first
\* query's pass rejected or failed on (it has no record); it is seen, and
\* the loop is about to skip it
C29_Witness ==
    /\ pc = "item"
    /\ q = 2
    /\ items # <<>>
    /\ Head(items) \in foundRepos
    /\ Len(modules) < 20
    /\ \A k \in 1..Len(modules) : modules[k].url # <<"github", Head(items)>>

\* C30: when every request is eventually answered and every sleep ends,
\* fetchModules() returns or throws; on the way no URL is looked up over the
\* network more than twice and no lookup sends more than maxRetries = 3
\* requests, so the number of requests of a run is bounded
C30_Terminates ==
    /\ <>Ended
    /\ [](/\ \A u \in AllUrls : netLookups[u] <= 2
          /\ cur.nreq <= 3
          /\ \A k \in 1..Len(tasks) : tasks[k].nreq <= 3)

\* C30 witness: fetchModules returned after more than 60 counted requests,
\* 404 answers among them
C30_Witness == Returned /\ requestCount > 60 /\ notFoundCache # {}

====
